---- MODULE Spec2Model ----
(***************************************************************************)
(* Azure architecture diagram analyzer: the response normalizer            *)
(* (DiagramAnalyzer._parse_response), the analysis boundary                *)
(* (DiagramAnalyzer.analyze_diagram), the aggregation helpers and the      *)
(* Streamlit session that drives them.                                     *)
(*                                                                         *)
(* Representation.  A Python str is a sequence of fragments whose          *)
(* concatenation is the text.  Keys, messages and free-text values are     *)
(* one fragment each; category names, which the program orders, are        *)
(* spelled one character per fragment.  A JSON value is a tagged record    *)
(* [t, v]; a Python dict is the insertion-ordered sequence of its          *)
(* <<key, value>> pairs.  A response text is a sequence of lexemes.        *)
(*                                                                         *)
(* Scope.  Resources handed to the aggregation functions are dicts whose   *)
(* category, when present, is a str and whose connections, when present,   *)
(* is a list.  DiagramAnalyzer.__init__ is taken not to raise.             *)
(***************************************************************************)
EXTENDS Naturals, Sequences, FiniteSets, TLC

VARIABLES
    api_key,          \* st.text_input "Google Gemini API Key" (app1.py:76)
    model_name,       \* st.selectbox "AI Model" (app1.py:83)
    uploaded_image,   \* st.session_state.uploaded_image (app1.py:60)
    analyzer,         \* st.session_state.analyzer (app1.py:62)
    analysis_result,  \* st.session_state.analysis_result (app1.py:58)
    clock,            \* datetime.now() as read by _get_timestamp
    generate_calls,   \* number of model.generate_content calls made so far
    last_call,        \* the latest analyze click: sidebar values, AI outcome, normalize outcome
    text,             \* normalizer harness: the raw response text under test
    fence,            \* normalizer harness: the fence wrapping applied to text
    norm,             \* normalizer harness: _parse_response(text)
    normFenced,       \* normalizer harness: _parse_response(fence-wrapped text)
    resources,        \* aggregator harness: result['resources']
    grouping,         \* aggregator harness: get_resources_by_category(result)
    stats,            \* aggregator harness: get_resource_statistics(result)
    rows              \* table harness: df_data of display_resources_table(result)

vars == <<api_key, model_name, uploaded_image, analyzer, analysis_result, clock, generate_calls, last_call,
          text, fence, norm, normFenced, resources, grouping, stats, rows>>

sessionVars == <<api_key, model_name, uploaded_image, analyzer, analysis_result, clock, generate_calls, last_call>>
normVars == <<text, fence, norm, normFenced>>
aggVars == <<resources, grouping, stats, rows>>

(***************************************************************************)
(* Bounds of the model.                                                    *)
(***************************************************************************)
\* Number of timestamps the session's clock can hand out.
MaxClock == 3
\* Longest resources sequence handed to the aggregation functions.
MaxResources == 3

(***************************************************************************)
(* Python values.                                                          *)
(***************************************************************************)
Str(s) == [t |-> "string", v |-> s]
Num(digits) == [t |-> "number", v |-> digits]
Arr(items) == [t |-> "array", v |-> items]
Obj(pairs) == [t |-> "object", v |-> pairs]
Null == [t |-> "null", v |-> <<>>]
True == [t |-> "true", v |-> <<>>]
False == [t |-> "false", v |-> <<>>]
\* Python's None where the program itself stores it (session state, statistics).
None == [t |-> "None", v |-> <<>>]

\* String literals of the program, one fragment each.
kResources == <<"resources">>
kPattern == <<"architecture_pattern">>
kSummary == <<"summary">>
kConfidence == <<"confidence">>
kMetadata == <<"metadata">>
kSuccess == <<"success">>
kModel == <<"model">>
kTimestamp == <<"timestamp">>
kError == <<"error">>
kCategory == <<"category">>
kConnections == <<"connections">>
kResourceName == <<"resource_name">>
kDescription == <<"description">>
kResourceType == <<"resource_type">>

sMedium == <<"medium">>
sNotIdentified == <<"Not identified">>
sNoSummary == <<"No summary available">>
sErrorPattern == <<"Error">>
sNA == <<"N/A">>
\* 'Other', the category default, spelled by character because categories are sorted.
sOther == <<"O", "t", "h", "e", "r">>

\* Membership tests and reads on a dict (a sequence of <<key, value>> pairs).
HasKey(d, k) == \E i \in 1..Len(d) : d[i][1] = k
DictIndex(d, k) == CHOOSE i \in 1..Len(d) : d[i][1] = k
\* dict.get(k, default)
DictGet(d, k, default) == IF HasKey(d, k) THEN d[DictIndex(d, k)][2] ELSE default
\* d[k] = v: an existing key keeps its place, a new key goes last.
DictSet(d, k, val) ==
    IF HasKey(d, k)
    THEN [i \in 1..Len(d) |-> IF d[i][1] = k THEN <<k, val>> ELSE d[i]]
    ELSE Append(d, <<k, val>>)

\* needle in haystack, for two str: a contiguous run of fragments.
IsSubstring(needle, hay) ==
    \E i \in 0..(Len(hay) - Len(needle)) :
        \A j \in 1..Len(needle) : hay[i + j] = needle[j]

(***************************************************************************)
(* Response text: a sequence of lexemes [k, s].  k is the lexeme's kind    *)
(* and s its text ("string": the decoded contents of a string literal).    *)
(***************************************************************************)
Tok(k, s) == [k |-> k, s |-> s]
LBrace == Tok("{", <<>>)
RBrace == Tok("}", <<>>)
LBrack == Tok("[", <<>>)
RBrack == Tok("]", <<>>)
Colon == Tok(":", <<>>)
Comma == Tok(",", <<>>)
Space == Tok("ws", <<" ">>)
Newline == Tok("ws", <<"\n">>)
\* The code-fence marker: three backticks.
Fence == Tok("fence", <<>>)
\* The bare word json, as it follows an opening fence.
JsonWord == Tok("word", <<"json">>)
StrTok(s) == Tok("string", s)

\* \s* at position i: the number of whitespace lexemes starting there.
RECURSIVE WsRun(_, _)
WsRun(txt, i) ==
    IF i <= Len(txt) /\ txt[i].k = "ws" THEN 1 + WsRun(txt, i + 1) ELSE 0

\* Length of the match of  ```json\s*|\s*```  that starts at position i, 0 when there is none.
\* The first alternative is tried first; the second is \s* (greedy) followed by a fence.
ReMatchLen(txt, i) ==
    IF i + 1 <= Len(txt) /\ txt[i] = Fence /\ txt[i + 1] = JsonWord
    THEN 2 + WsRun(txt, i + 2)
    ELSE LET w == WsRun(txt, i)
         IN  IF i + w <= Len(txt) /\ txt[i + w] = Fence THEN w + 1 ELSE 0

\* The leftmost position at or after i where the pattern matches, Len(txt) + 1 if none.
ReSearch(txt, i) ==
    LET starts == {j \in i..Len(txt) : ReMatchLen(txt, j) > 0}
    IN  IF starts = {} THEN Len(txt) + 1
        ELSE CHOOSE j \in starts : \A n \in starts : j <= n

\* re.sub(pattern, '', text): from position i, keep the text up to the leftmost match,
\* drop the match, and go on after it.
RECURSIVE ReSubFrom(_, _)
ReSubFrom(txt, i) ==
    LET j == ReSearch(txt, i)
    IN  IF j > Len(txt) THEN SubSeq(txt, i, Len(txt))
        ELSE SubSeq(txt, i, j - 1) \o ReSubFrom(txt, j + ReMatchLen(txt, j))

ReSub(txt) == ReSubFrom(txt, 1)

\* str.strip(): drop leading and trailing whitespace.
RECURSIVE RStrip(_)
RStrip(txt) ==
    IF txt # <<>> /\ txt[Len(txt)].k = "ws" THEN RStrip(SubSeq(txt, 1, Len(txt) - 1)) ELSE txt

Strip(txt) == RStrip(SubSeq(txt, WsRun(txt, 1) + 1, Len(txt)))

(***************************************************************************)
(* json.loads: a recursive-descent parse of the lexemes.                   *)
(***************************************************************************)
ParseOk(val, pos) == [ok |-> TRUE, val |-> val, pos |-> pos, err |-> ""]
ParseFail(msg) == [ok |-> FALSE, val |-> Null, pos |-> 0, err |-> msg]
SkipWs(txt, i) == i + WsRun(txt, i)

RECURSIVE ParseValue(_, _), ParseMembers(_, _, _), ParseElements(_, _, _)
\* One value starting at lexeme i (whitespace already skipped).
ParseValue(txt, i) ==
    IF i > Len(txt) THEN ParseFail("Expecting value")
    ELSE CASE txt[i].k = "string" -> ParseOk(Str(txt[i].s), i + 1)
           [] txt[i].k = "number" -> ParseOk(Num(txt[i].s), i + 1)
           [] txt[i].k = "null" -> ParseOk(Null, i + 1)
           [] txt[i].k = "true" -> ParseOk(True, i + 1)
           [] txt[i].k = "false" -> ParseOk(False, i + 1)
           [] txt[i].k = "{" ->
                LET j == SkipWs(txt, i + 1)
                IN  IF j <= Len(txt) /\ txt[j].k = "}" THEN ParseOk(Obj(<<>>), j + 1)
                    ELSE ParseMembers(txt, j, <<>>)
           [] txt[i].k = "[" ->
                LET j == SkipWs(txt, i + 1)
                IN  IF j <= Len(txt) /\ txt[j].k = "]" THEN ParseOk(Arr(<<>>), j + 1)
                    ELSE ParseElements(txt, j, <<>>)
           [] OTHER -> ParseFail("Expecting value")

\* The members of an object, from the key at lexeme i; acc holds the pairs read so far.
ParseMembers(txt, i, acc) ==
    IF i > Len(txt) \/ txt[i].k # "string"
    THEN ParseFail("Expecting property name enclosed in double quotes")
    ELSE LET j == SkipWs(txt, i + 1)
         IN  IF j > Len(txt) \/ txt[j].k # ":" THEN ParseFail("Expecting ':' delimiter")
             ELSE LET r == ParseValue(txt, SkipWs(txt, j + 1))
                  IN  IF ~r.ok THEN r
                      ELSE LET n == SkipWs(txt, r.pos)
                               acc2 == DictSet(acc, txt[i].s, r.val)
                           IN  IF n > Len(txt) THEN ParseFail("Expecting ',' delimiter")
                               ELSE IF txt[n].k = "}" THEN ParseOk(Obj(acc2), n + 1)
                               ELSE IF txt[n].k = ","
                                    THEN ParseMembers(txt, SkipWs(txt, n + 1), acc2)
                               ELSE ParseFail("Expecting ',' delimiter")

\* The elements of an array, from the value at lexeme i.
ParseElements(txt, i, acc) ==
    LET r == ParseValue(txt, i)
    IN  IF ~r.ok THEN r
        ELSE LET n == SkipWs(txt, r.pos)
                 acc2 == Append(acc, r.val)
             IN  IF n > Len(txt) THEN ParseFail("Expecting ',' delimiter")
                 ELSE IF txt[n].k = "]" THEN ParseOk(Arr(acc2), n + 1)
                 ELSE IF txt[n].k = ","
                      THEN ParseElements(txt, SkipWs(txt, n + 1), acc2)
                 ELSE ParseFail("Expecting ',' delimiter")

\* json.loads(s): one value, surrounded by optional whitespace, and nothing after it.
Loads(txt) ==
    LET r == ParseValue(txt, SkipWs(txt, 1))
    IN  IF ~r.ok THEN r
        ELSE IF SkipWs(txt, r.pos) <= Len(txt) THEN ParseFail("Extra data")
        ELSE r

(***************************************************************************)
(* DiagramAnalyzer._parse_response                                         *)
(***************************************************************************)
\* The outcome of a call: a returned value, or a raised exception with str(e).
Returned(val) == [exc |-> "none", msg |-> <<>>, val |-> val]
Raised(exc, msg) == [exc |-> exc, msg |-> msg, val |-> Null]

\* if key not in result: result[key] = default
\* `in` is key membership on a dict, element membership on a list, a substring test
\* on a str, and a TypeError on anything else; item assignment with a str key works
\* on a dict only.
EnsureKey(out, key, default) ==
    IF out.exc # "none" THEN out
    ELSE LET r == out.val
         IN  CASE r.t = "object" ->
                    IF HasKey(r.v, key) THEN out
                    ELSE Returned(Obj(DictSet(r.v, key, default)))
               [] r.t = "array" ->
                    IF \E i \in 1..Len(r.v) : r.v[i].t = "string" /\ r.v[i].v = key THEN out
                    ELSE Raised("TypeError", <<"list indices must be integers or slices, not str">>)
               [] r.t = "string" ->
                    IF IsSubstring(key, r.v) THEN out
                    ELSE Raised("TypeError", <<"'str' object does not support item assignment">>)
               [] r.t = "number" ->
                    Raised("TypeError", <<"argument of type 'int' is not iterable">>)
               [] r.t = "null" ->
                    Raised("TypeError", <<"argument of type 'NoneType' is not iterable">>)
               [] OTHER ->
                    Raised("TypeError", <<"argument of type 'bool' is not iterable">>)

\* Variant: the confidence backfill uses the error value 'N/A'.
ValidateStructureNA(val) ==
    EnsureKey(
        EnsureKey(
            EnsureKey(
                EnsureKey(Returned(val), kResources, Arr(<<>>)),
                kPattern, Str(sNotIdentified)),
            kSummary, Str(sNoSummary)),
        kConfidence, Str(sNA))

\* Variant: the summary backfill is left out.
ValidateStructureNoSummary(val) ==
    EnsureKey(
        EnsureKey(
            EnsureKey(Returned(val), kResources, Arr(<<>>)),
            kPattern, Str(sNotIdentified)),
        kConfidence, Str(sMedium))

\* Lines 151-161: the four backfills, in the order of the source.
ValidateStructure(val) ==
    EnsureKey(
        EnsureKey(
            EnsureKey(
                EnsureKey(Returned(val), kResources, Arr(<<>>)),
                kPattern, Str(sNotIdentified)),
            kSummary, Str(sNoSummary)),
        kConfidence, Str(sMedium))

\* Variant: a parse failure is swallowed and an empty answer is backfilled.
ParseResponseLenient(response_text) ==
    LET cleaned_text == Strip(ReSub(response_text))
        r == Loads(cleaned_text)
    IN  IF ~r.ok THEN ValidateStructure(Obj(<<>>))
        ELSE ValidateStructure(r.val)

\* re.sub, strip, json.loads, then the backfills.  A JSONDecodeError of json.loads
\* is not caught here.
ParseResponse(response_text) ==
    LET cleaned_text == Strip(ReSub(response_text))
        r == Loads(cleaned_text)
    IN  IF ~r.ok THEN Raised("JSONDecodeError", <<r.err>>)
        ELSE ValidateStructure(r.val)

(***************************************************************************)
(* DiagramAnalyzer: construction, analyze_diagram, the error response      *)
(***************************************************************************)
\* model_mapping.get(model_name, "gemini-1.5-flash-latest")
ModelMapping(name) ==
    CASE name = "gemini-1.5-flash" -> "gemini-1.5-flash-latest"
      [] name = "gemini-1.5-pro" -> "gemini-1.5-pro-latest"
      [] name = "gemini-1.5-flash-latest" -> "gemini-1.5-flash-latest"
      [] name = "gemini-1.5-pro-latest" -> "gemini-1.5-pro-latest"
      [] OTHER -> "gemini-1.5-flash-latest"

\* DiagramAnalyzer(api_key, model_name)
NewAnalyzer(key, name) == [t |-> "DiagramAnalyzer", api_key |-> key, model_name |-> ModelMapping(name)]

\* datetime.now().isoformat()
GetTimestamp(now) == Str(<<ToString(now)>>)

\* Variant: the error response carries a fixed summary instead of the message.
CreateErrorResponseFixedSummary(error_message, now) ==
    Obj(<< <<kMetadata, Obj(<< <<kSuccess, False>>,
                               <<kError, Str(error_message)>>,
                               <<kTimestamp, GetTimestamp(now)>> >>)>>,
           <<kResources, Arr(<<>>)>>,
           <<kPattern, Str(sErrorPattern)>>,
           <<kSummary, Str(<<"Unknown error">>)>>,
           <<kConfidence, Str(sNA)>> >>)

\* _create_error_response(error_message)
CreateErrorResponse(error_message, now) ==
    Obj(<< <<kMetadata, Obj(<< <<kSuccess, False>>,
                               <<kError, Str(error_message)>>,
                               <<kTimestamp, GetTimestamp(now)>> >>)>>,
           <<kResources, Arr(<<>>)>>,
           <<kPattern, Str(sErrorPattern)>>,
           <<kSummary, Str(error_message)>>,
           <<kConfidence, Str(sNA)>> >>)

\* Variant: only the JSONDecodeError clause; any other exception propagates.
HandleExceptionJsonOnly(exc, msg, now) ==
    IF exc = "JSONDecodeError"
    THEN Returned(CreateErrorResponse(<<"Failed to parse AI response as JSON: ">> \o msg, now))
    ELSE Raised(exc, msg)

\* The two except clauses of analyze_diagram: every Exception ends as a returned
\* error response.
HandleException(exc, msg, now) ==
    IF exc = "JSONDecodeError"
    THEN Returned(CreateErrorResponse(<<"Failed to parse AI response as JSON: ">> \o msg, now))
    ELSE Returned(CreateErrorResponse(<<"Analysis error: ">> \o msg, now))

\* result['metadata'] = {...} on the value _parse_response returned.
AttachMetadata(self, val, now) ==
    CASE val.t = "object" ->
            Returned(Obj(DictSet(val.v, kMetadata,
                                 Obj(<< <<kSuccess, True>>,
                                        <<kModel, Str(<<self.model_name>>)>>,
                                        <<kTimestamp, GetTimestamp(now)>> >>))))
      [] val.t = "array" ->
            Raised("TypeError", <<"list indices must be integers or slices, not str">>)
      [] OTHER ->
            Raised("TypeError", <<"'str' object does not support item assignment">>)

\* An outcome of self.model.generate_content([prompt, image]) and response.text.
AiText(txt) == [raised |-> FALSE, exc |-> "none", msg |-> <<>>, text |-> txt]
AiRaise(exc, msg) == [raised |-> TRUE, exc |-> exc, msg |-> msg, text |-> <<>>]

\* analyze_diagram(image), given what the AI call does and the time of the call:
\* the outcome of the call, a returned dict or a propagated exception.
AnalyzeDiagram(self, ai, now) ==
    IF ai.raised THEN HandleException(ai.exc, ai.msg, now)
    ELSE LET parsed == ParseResponse(ai.text)
         IN  IF parsed.exc # "none" THEN HandleException(parsed.exc, parsed.msg, now)
             ELSE LET result == AttachMetadata(self, parsed.val, now)
                  IN  IF result.exc # "none" THEN HandleException(result.exc, result.msg, now)
                      ELSE result

(***************************************************************************)
(* Aggregation: get_resources_by_category and get_resource_statistics.     *)
(* Their inputs are results whose resources value is a list of dicts with  *)
(* str categories and list connections, each key optional.                 *)
(***************************************************************************)
\* ord(c) for the characters category names are spelled with.
Ord(c) ==
    CASE c = "C" -> 67 [] c = "O" -> 79 [] c = "S" -> 83
      [] c = "a" -> 97 [] c = "c" -> 99 [] c = "e" -> 101 [] c = "g" -> 103
      [] c = "h" -> 104 [] c = "m" -> 109 [] c = "o" -> 111 [] c = "p" -> 112
      [] c = "r" -> 114 [] c = "t" -> 116 [] c = "u" -> 117

\* a < b for two str: by code point at the first difference, a proper prefix first.
RECURSIVE StrLess(_, _)
StrLess(a, b) ==
    IF a = <<>> THEN b # <<>>
    ELSE IF b = <<>> THEN FALSE
    ELSE IF a[1] = b[1] THEN StrLess(Tail(a), Tail(b))
    ELSE Ord(a[1]) < Ord(b[1])

\* (k1, v1) < (k2, v2) for two items of one dict: the keys differ, so they decide.
ItemLess(x, y) == x[1] # y[1] /\ StrLess(x[1], y[1])

\* sorted(items): a stable sort, here by insertion.
InsertSorted(acc, x) ==
    LET n == Cardinality({i \in 1..Len(acc) : ~ItemLess(x, acc[i])})
    IN  SubSeq(acc, 1, n) \o <<x>> \o SubSeq(acc, n + 1, Len(acc))

RECURSIVE SortedFrom(_, _, _)
SortedFrom(items, i, acc) ==
    IF i > Len(items) THEN acc ELSE SortedFrom(items, i + 1, InsertSorted(acc, items[i]))

Sorted(items) == SortedFrom(items, 1, <<>>)

\* result.get('resources', [])
ResourcesOf(result) == DictGet(result.v, kResources, Arr(<<>>)).v

\* Variant: resource.get('category') or 'Other', which also replaces an empty category.
CategoryOfOrOther(resource) ==
    LET c == DictGet(resource.v, kCategory, Str(sOther)).v
    IN  IF c = <<>> THEN sOther ELSE c

\* resource.get('category', 'Other')
CategoryOf(resource) == DictGet(resource.v, kCategory, Str(sOther)).v

\* Variant: a resource without connections counts as one connection.
ConnectionCountMissingOne(resource) ==
    IF HasKey(resource.v, kConnections) THEN Len(DictGet(resource.v, kConnections, Arr(<<>>)).v)
    ELSE 1

\* len(r.get('connections', []))
ConnectionCount(resource) == Len(DictGet(resource.v, kConnections, Arr(<<>>)).v)

\* Variant: the loop puts each resource at the front of its bucket.
RECURSIVE GroupFromPrepend(_, _, _)
GroupFromPrepend(rs, i, categories) ==
    IF i > Len(rs) THEN categories
    ELSE LET category == CategoryOf(rs[i])
             bucket == DictGet(categories, category, <<>>)
         IN  GroupFromPrepend(rs, i + 1, DictSet(categories, category, <<rs[i]>> \o bucket))

\* The loop of get_resources_by_category, from resource i; categories is the dict so far.
RECURSIVE GroupFrom(_, _, _)
GroupFrom(rs, i, categories) ==
    IF i > Len(rs) THEN categories
    ELSE LET category == CategoryOf(rs[i])
             bucket == DictGet(categories, category, <<>>)
         IN  GroupFrom(rs, i + 1, DictSet(categories, category, Append(bucket, rs[i])))

\* Variant: the dict is returned in insertion order, without the sort.
GetResourcesByCategoryUnsorted(result) == GroupFrom(ResourcesOf(result), 1, <<>>)

\* get_resources_by_category(result): the dict as the sequence of its items.
GetResourcesByCategory(result) == Sorted(GroupFrom(ResourcesOf(result), 1, <<>>))

\* Variant: the counting loop reads the category as resource.get('category') or 'Other'.
RECURSIVE CountFromOrOther(_, _, _)
CountFromOrOther(rs, i, counts) ==
    IF i > Len(rs) THEN counts
    ELSE LET category == CategoryOfOrOther(rs[i])
         IN  CountFromOrOther(rs, i + 1,
                              DictSet(counts, category, DictGet(counts, category, 0) + 1))

\* The counting loop of get_resource_statistics.
RECURSIVE CountFrom(_, _, _)
CountFrom(rs, i, counts) ==
    IF i > Len(rs) THEN counts
    ELSE LET category == CategoryOf(rs[i])
         IN  CountFrom(rs, i + 1, DictSet(counts, category, DictGet(counts, category, 0) + 1))

\* sum(len(r.get('connections', [])) for r in resources)
RECURSIVE SumConnections(_, _)
SumConnections(rs, i) ==
    IF i > Len(rs) THEN 0 ELSE ConnectionCount(rs[i]) + SumConnections(rs, i + 1)

\* Variant: among resources with the largest key the last one wins.
RECURSIVE MaxFromLast(_, _, _)
MaxFromLast(rs, i, best) ==
    IF i > Len(rs) THEN best
    ELSE MaxFromLast(rs, i + 1,
                     IF ConnectionCount(rs[i]) >= ConnectionCount(rs[best]) THEN i ELSE best)

\* max(resources, key=...): the index of the first resource with the largest key.
RECURSIVE MaxFrom(_, _, _)
MaxFrom(rs, i, best) ==
    IF i > Len(rs) THEN best
    ELSE MaxFrom(rs, i + 1,
                 IF ConnectionCount(rs[i]) > ConnectionCount(rs[best]) THEN i ELSE best)

\* result.get('confidence', 'N/A'), the statistics' confidence entry.
StatsConfidence(result) == DictGet(result.v, kConfidence, Str(sNA))

\* get_resource_statistics(result)
GetResourceStatistics(result) ==
    LET rs == ResourcesOf(result)
    IN  [total_resources |-> Len(rs),
         total_categories |-> Cardinality({CategoryOf(rs[i]) : i \in 1..Len(rs)}),
         total_connections |-> SumConnections(rs, 1),
         resources_by_category |-> CountFrom(rs, 1, <<>>),
         most_connected_resource |->
            IF rs # <<>>
            THEN LET most_connected == rs[MaxFrom(rs, 2, 1)]
                 IN  [t |-> "object",
                      name |-> DictGet(most_connected.v, kResourceName, Str(<<"Unknown">>)).v,
                      connections |-> ConnectionCount(most_connected)]
            ELSE [t |-> "None", name |-> <<>>, connections |-> 0],
         confidence |-> StatsConfidence(result)]

(***************************************************************************)
(* What the AI model can answer: response.text as lexemes.                 *)
(***************************************************************************)
\* A JSON document as the model writes it: ", " and ": " separators.
RECURSIVE Render(_), RenderPairs(_), RenderItems(_)
Render(val) ==
    CASE val.t = "string" -> <<StrTok(val.v)>>
      [] val.t = "object" -> <<LBrace>> \o RenderPairs(val.v) \o <<RBrace>>
      [] val.t = "array" -> <<LBrack>> \o RenderItems(val.v) \o <<RBrack>>
      [] OTHER -> <<Tok(val.t, val.v)>>

RenderPairs(d) ==
    IF d = <<>> THEN <<>>
    ELSE <<StrTok(d[1][1]), Colon, Space>> \o Render(d[1][2])
         \o (IF Len(d) > 1 THEN <<Comma, Space>> \o RenderPairs(Tail(d)) ELSE <<>>)

RenderItems(items) ==
    IF items = <<>> THEN <<>>
    ELSE Render(items[1])
         \o (IF Len(items) > 1 THEN <<Comma, Space>> \o RenderItems(Tail(items)) ELSE <<>>)

\* Category names, by character.
sCompute == <<"C", "o", "m", "p", "u", "t", "e">>
sStorage == <<"S", "t", "o", "r", "a", "g", "e">>
sCache == <<"c", "a", "c", "h", "e">>
sEmpty == <<>>

\* A value that stands for "this key is not in the dict" when building inputs.
Absent == [t |-> "absent", v |-> <<>>]
\* A dict from candidate pairs, leaving out the absent ones.
DictOf(pairs) == Obj(SelectSeq(pairs, LAMBDA p : p[2].t # "absent"))

MkResource(name, category, connections) ==
    DictOf(<< <<kResourceName, name>>, <<kCategory, category>>, <<kConnections, connections>> >>)

resA == MkResource(Str(<<"A">>), Str(sStorage), Arr(<<Str(<<"B">>)>>))
resB == MkResource(Str(<<"B">>), Str(sCompute), Arr(<<Str(<<"A">>), Str(<<"C">>)>>))
resC == MkResource(Str(<<"C">>), Absent, Absent)

\* A complete answer, and the same answer with only the top-level keys in `keys`.
FullPairs ==
    << <<kPattern, Str(<<"Hub-and-Spoke">>)>>,
       <<kSummary, Str(<<"A web application">>)>>,
       <<kConfidence, Str(<<"high">>)>>,
       <<kResources, Arr(<<resA, resB, resC>>)>> >>

FourKeys == {kPattern, kSummary, kConfidence, kResources}

DocWithKeys(keys) == Obj(SelectSeq(FullPairs, LAMBDA p : p[1] \in keys))

\* The same answer with one top-level value replaced.
DocWith(key, val) == Obj(DictSet(FullPairs, key, val))

\* Objects: every subset of the four keys, and unusual values under a key.
ObjectDocs ==
    {DocWithKeys(keys) : keys \in SUBSET FourKeys}
    \cup {DocWith(kConfidence, c) : c \in {Str(<<"low">>), Str(sMedium), Str(sNA), Null}}
    \cup {DocWith(kResources, r) : r \in {Arr(<<>>), Num(<<"5">>), Str(<<"none">>), Null, Obj(<<>>)}}
    \cup {Obj(<< <<kConfidence, Str(sNA)>> >>), Obj(<< <<<<"note">>, Str(<<"n/a">>)>> >>)}

\* Top-level values that are not objects.
NonObjectDocs ==
    {Arr(<<>>), Arr(<<Num(<<"1">>)>>), Arr(<<resA>>),
     Arr(<<Str(kResources), Str(kPattern), Str(kSummary), Str(kConfidence)>>),
     Str(<<"no diagram found">>),
     Str(<<"resources", " ", "architecture_pattern", " ", "summary", " ", "confidence">>),
     Num(<<"42">>), Null, True, False}

\* Texts that are one JSON document.
ValidTexts == {Render(d) : d \in ObjectDocs \cup NonObjectDocs}

Prefixes(txt) == {SubSeq(txt, 1, n) : n \in 0..(Len(txt) - 1)}

\* Texts that are not: truncated answers, prose around the answer, a trailing comma,
\* a missing colon, a bare word, two documents.
InvalidTexts ==
    Prefixes(Render(DocWithKeys({kConfidence, kResources})))
    \cup {<<Tok("word", <<"Here">>), Space>> \o Render(DocWithKeys(FourKeys)),
          Render(DocWithKeys({kSummary})) \o <<Space, Tok("word", <<"Done">>)>>,
          <<LBrace, StrTok(kSummary), Colon, StrTok(<<"s">>), Comma, RBrace>>,
          <<LBrace, StrTok(kSummary), StrTok(<<"s">>), RBrace>>,
          <<LBrack, Tok("number", <<"1">>), Comma, RBrack>>,
          <<JsonWord>>,
          <<LBrace, RBrace, LBrace, RBrace>>}

\* How a fenced answer is wrapped: what precedes and what follows the document.
FenceShapes ==
    << [open |-> <<Fence, JsonWord, Newline>>, close |-> <<Newline, Fence>>],
       [open |-> <<Fence, JsonWord>>, close |-> <<Fence>>],
       [open |-> <<Space, Fence, JsonWord, Newline, Space>>,
        close |-> <<Space, Newline, Fence, Newline>>],
       [open |-> <<Newline, Fence, JsonWord, Space, Space>>, close |-> <<Newline, Newline, Fence, Space>>] >>

Wrap(txt, shape) == FenceShapes[shape].open \o txt \o FenceShapes[shape].close

(***************************************************************************)
(* The Streamlit session (app1.py main).                                   *)
(***************************************************************************)
\* What the user can type as the API key; "" is the empty input.
ApiKeys == {"", "key-1", "key-2"}
\* The options of the model selectbox.
ModelOptions == {"gemini-1.5-flash-latest", "gemini-1.5-pro-latest"}

\* What generate_content and response.text can do on one call.
AiOutcomes ==
    {AiRaise("InvalidArgument", <<"400 API key not valid">>),
     AiRaise("ResourceExhausted", <<"429 quota exceeded">>),
     AiRaise("ValueError", <<"response.text requires a valid Part">>)}
    \cup {AiText(txt) : txt \in
            {Render(DocWithKeys(FourKeys)),
             Render(DocWithKeys({kResources})),
             Render(DocWithKeys({kPattern, kSummary})),
             Render(DocWith(kConfidence, Str(sNA))),
             Render(DocWith(kResources, Num(<<"5">>))),
             Wrap(Render(DocWithKeys(FourKeys)), 1),
             Wrap(Render(DocWithKeys({kSummary, kResources})), 3),
             SubSeq(Render(DocWithKeys(FourKeys)), 1, 9),
             <<Tok("word", <<"Here">>), Space>> \o Render(DocWithKeys(FourKeys)),
             Render(Arr(<<resA>>)),
             Render(Arr(<<Str(kResources), Str(kPattern), Str(kSummary), Str(kConfidence)>>)),
             Render(Str(<<"resources", " ", "architecture_pattern", " ", "summary", " ",
                          "confidence">>)),
             Render(Str(<<"no diagram found">>)),
             Render(Num(<<"42">>)),
             Render(Null),
             Render(True),
             <<>>}}

NoCall == [ai |-> AiRaise("none", <<>>), parsed |-> Raised("notrun", <<>>), at |-> 0,
           returned |-> FALSE, api_key |-> "", model_name |-> ""]
NotRun == Raised("notrun", <<>>)

\* initialize_session_state and the widgets' initial values.
SessionInit ==
    /\ api_key = ""
    /\ model_name = "gemini-1.5-flash-latest"
    /\ uploaded_image = None
    /\ analyzer = None
    /\ analysis_result = None
    /\ clock = 0
    /\ generate_calls = 0
    /\ last_call = NoCall

NormIdle == text = <<>> /\ fence = 1 /\ norm = NotRun /\ normFenced = NotRun
AggIdle == resources = <<>> /\ grouping = None /\ stats = None /\ rows = None

\* The user edits the API key field.
EnterApiKey ==
    /\ \E k \in ApiKeys : k # api_key /\ api_key' = k
    /\ UNCHANGED <<model_name, uploaded_image, analyzer, analysis_result, clock,
                   generate_calls, last_call>>
    /\ UNCHANGED <<normVars, aggVars>>

\* The user picks a model in the selectbox.
SelectModel ==
    /\ \E m \in ModelOptions : m # model_name /\ model_name' = m
    /\ UNCHANGED <<api_key, uploaded_image, analyzer, analysis_result, clock,
                   generate_calls, last_call>>
    /\ UNCHANGED <<normVars, aggVars>>

\* The user uploads a PNG; main stores the decoded image.
UploadImage ==
    /\ uploaded_image = None
    /\ uploaded_image' = [t |-> "Image", v |-> <<>>]
    /\ UNCHANGED <<api_key, model_name, analyzer, analysis_result, clock,
                   generate_calls, last_call>>
    /\ UNCHANGED <<normVars, aggVars>>

\* "Analyze Diagram" with no API key entered: an error message, nothing else.
ClickAnalyzeNoKey ==
    /\ uploaded_image # None
    /\ api_key = ""
    /\ UNCHANGED sessionVars
    /\ UNCHANGED <<normVars, aggVars>>

\* Variant: a stored success result is kept when the new call ends in an error result.
StoreResultKeepSuccess(current, out) ==
    IF out.exc # "none" THEN current
    ELSE IF /\ current # None
            /\ DictGet(DictGet(current.v, kMetadata, Obj(<<>>)).v, kSuccess, False) = True
            /\ DictGet(DictGet(out.val.v, kMetadata, Obj(<<>>)).v, kSuccess, False) # True
         THEN current
         ELSE out.val

\* st.session_state.analysis_result = result, reached only when analyze_diagram returns.
StoreResult(current, out) == IF out.exc = "none" THEN out.val ELSE current

\* "Analyze Diagram" with a key: the analyzer is (re)built if needed, analyze_diagram
\* runs once and its return value becomes the session's result.  An exception that
\* analyze_diagram lets through is shown by main and the stored result stays.
ClickAnalyze ==
    /\ uploaded_image # None
    /\ api_key # ""
    /\ clock < MaxClock
    /\ \E ai \in AiOutcomes :
        LET self == IF analyzer = None \/ analyzer.api_key # api_key
                    THEN NewAnalyzer(api_key, model_name)
                    ELSE analyzer
            out == AnalyzeDiagram(self, ai, clock)
        IN  /\ analyzer' = self
            /\ analysis_result' = StoreResult(analysis_result, out)
            /\ last_call' = [ai |-> ai,
                             parsed |-> IF ai.raised THEN NotRun ELSE ParseResponse(ai.text),
                             at |-> clock,
                             returned |-> out.exc = "none",
                             api_key |-> api_key,
                             model_name |-> model_name]
    /\ clock' = clock + 1
    /\ generate_calls' = generate_calls + 1
    /\ UNCHANGED <<api_key, model_name, uploaded_image>>
    /\ UNCHANGED <<normVars, aggVars>>

Init == SessionInit /\ NormIdle /\ AggIdle

Next ==
    \/ EnterApiKey
    \/ SelectModel
    \/ UploadImage
    \/ ClickAnalyzeNoKey
    \/ ClickAnalyze

Spec == Init /\ [][Next]_vars

(***************************************************************************)
(* _parse_response on its own: one raw text, bare and fence-wrapped.       *)
(***************************************************************************)
NormStart ==
    /\ text \in ValidTexts \cup InvalidTexts
    /\ fence \in 1..Len(FenceShapes)
    /\ norm = NotRun
    /\ normFenced = NotRun

RunParseResponse ==
    /\ norm = NotRun
    /\ norm' = ParseResponse(text)
    /\ UNCHANGED <<text, fence, normFenced>>
    /\ UNCHANGED <<sessionVars, aggVars>>

RunParseFenced ==
    /\ normFenced = NotRun
    /\ normFenced' = ParseResponse(Wrap(text, fence))
    /\ UNCHANGED <<text, fence, norm>>
    /\ UNCHANGED <<sessionVars, aggVars>>

InitNorm == SessionInit /\ NormStart /\ AggIdle

NextNorm ==
    \/ RunParseResponse
    \/ RunParseFenced

SpecNorm == InitNorm /\ [][NextNorm]_vars

(***************************************************************************)
(* The aggregation functions on their own: one resources list.             *)
(***************************************************************************)
CategoryChoices == {Absent, Str(sEmpty), Str(sCompute), Str(sOther), Str(sCache)}
ConnectionChoices == {Absent, Arr(<<Str(<<"B">>)>>), Arr(<<Str(<<"A">>), Str(<<"C">>)>>)}
\* The i-th resource of an input is named after its place.
NameOf(i) == Str(<<"R", ToString(i)>>)

\* The result dict the functions are handed.
ResultOf(rs) == Obj(<< <<kResources, Arr(rs)>> >>)

\* Any list of up to MaxResources resources, each with any category and connections.
AggStart ==
    /\ \E n \in 0..MaxResources :
         \E cs \in [1..n -> CategoryChoices], ks \in [1..n -> ConnectionChoices] :
            resources = [i \in 1..n |-> MkResource(NameOf(i), cs[i], ks[i])]
    /\ grouping = None
    /\ stats = None
    /\ rows = None

RunGetResourcesByCategory ==
    /\ grouping = None
    /\ grouping' = [t |-> "dict", v |-> GetResourcesByCategory(ResultOf(resources))]
    /\ UNCHANGED <<resources, stats, rows>>
    /\ UNCHANGED <<sessionVars, normVars>>

RunGetResourceStatistics ==
    /\ stats = None
    /\ stats' = [t |-> "dict", v |-> GetResourceStatistics(ResultOf(resources))]
    /\ UNCHANGED <<resources, grouping, rows>>
    /\ UNCHANGED <<sessionVars, normVars>>

InitAgg == SessionInit /\ NormIdle /\ AggStart

NextAgg ==
    \/ RunGetResourcesByCategory
    \/ RunGetResourceStatistics

SpecAgg == InitAgg /\ [][NextAgg]_vars

(***************************************************************************)
(* The table view (app1.py display_resources_table) on its own.            *)
(* A description is spelled by character; its n-th character is the last  *)
(* digit of n, so that any two slices of it differ.                        *)
(***************************************************************************)
\* Variant: the cut keeps the last 100 characters.
TruncateDescriptionTail(description) ==
    IF Len(description) > 100
    THEN SubSeq(description, Len(description) - 99, Len(description)) \o <<".", ".", ".">>
    ELSE description

\* description[:100] + '...' if len(description) > 100 else description
TruncateDescription(description) ==
    IF Len(description) > 100
    THEN SubSeq(description, 1, 100) \o <<".", ".", ".">>
    ELSE description

\* One dict appended to df_data.
TableRow(resource) ==
    [name |-> DictGet(resource.v, kResourceName, Str(<<>>)).v,
     type |-> DictGet(resource.v, kResourceType, Str(<<>>)).v,
     category |-> DictGet(resource.v, kCategory, Str(<<>>)).v,
     connections |-> ConnectionCount(resource),
     description |-> TruncateDescription(DictGet(resource.v, kDescription, Str(<<>>)).v)]

\* df_data of display_resources_table(result); with no resources the function warns
\* and returns, and no row is built.
DisplayResourcesTable(result) ==
    LET rs == ResourcesOf(result)
    IN  [i \in 1..Len(rs) |-> TableRow(rs[i])]

\* A description of n characters.
DescriptionOf(n) == Str([i \in 1..n |-> ToString(i % 10)])
\* The descriptions a resource can come with: none, or one of these lengths.
DescriptionChoices == {Absent} \cup {DescriptionOf(n) : n \in {0, 90, 100, 101, 150}}

\* A resource with every field but the description, and one with none of them.
TableResource(i, full, description) ==
    IF full
    THEN DictOf(<< <<kResourceName, NameOf(i)>>,
                   <<kResourceType, Str(<<"Azure Storage Account">>)>>,
                   <<kCategory, Str(sStorage)>>,
                   <<kDescription, description>>,
                   <<kConnections, Arr(<<Str(<<"B">>)>>)>> >>)
    ELSE DictOf(<< <<kDescription, description>> >>)

\* Any list of up to MaxResources resources, each with any of the descriptions.
TableStart ==
    /\ \E n \in 0..MaxResources :
         \E fs \in [1..n -> BOOLEAN], ds \in [1..n -> DescriptionChoices] :
            resources = [i \in 1..n |-> TableResource(i, fs[i], ds[i])]
    /\ grouping = None
    /\ stats = None
    /\ rows = None

RunDisplayResourcesTable ==
    /\ rows = None
    /\ rows' = [t |-> "list", v |-> DisplayResourcesTable(ResultOf(resources))]
    /\ UNCHANGED <<resources, grouping, stats>>
    /\ UNCHANGED <<sessionVars, normVars>>

InitTable == SessionInit /\ NormIdle /\ TableStart

NextTable == RunDisplayResourcesTable

SpecTable == InitTable /\ [][NextTable]_vars

(***************************************************************************)
(* Properties.                                                             *)
(***************************************************************************)
\* result[key], or Absent when the key is not there.
Field(result, key) == DictGet(result.v, key, Absent)
KeySet(result) == {result.v[i][1] : i \in 1..Len(result.v)}

\* The single error shape, for one message.
IsErrorResult(result) ==
    /\ result.t = "object"
    /\ Len(result.v) = 5
    /\ KeySet(result) = {kMetadata, kResources, kPattern, kSummary, kConfidence}
    /\ LET metadata == Field(result, kMetadata)
       IN  /\ metadata.t = "object"
           /\ Len(metadata.v) = 3
           /\ KeySet(metadata) = {kSuccess, kError, kTimestamp}
           /\ Field(metadata, kSuccess) = False
           /\ Field(metadata, kError).t = "string"
           /\ Field(result, kSummary) = Field(metadata, kError)
    /\ Field(result, kResources) = Arr(<<>>)
    /\ Field(result, kPattern) = Str(sErrorPattern)
    /\ Field(result, kConfidence) = Str(sNA)

\* A success result: metadata.success is true and the four top-level keys are there.
IsSuccessResult(result) ==
    /\ result.t = "object"
    /\ Field(result, kMetadata).t = "object"
    /\ Field(Field(result, kMetadata), kSuccess) = True
    /\ FourKeys \subseteq KeySet(result)

\* The latest analysis failed: the AI call raised, or its text did not parse.
LastCallFailed ==
    /\ generate_calls > 0
    /\ \/ last_call.ai.raised
       \/ last_call.parsed.exc = "JSONDecodeError"

\* str(e) of the exception the latest analysis met.
LastExceptionText ==
    IF last_call.ai.raised THEN last_call.ai.msg ELSE last_call.parsed.msg

\* C1: whenever an analysis fails (the AI call raises, or the response text does not
\* parse), the stored result is exactly the synthetic error result: success false,
\* error the message (which ends with the exception's text), empty resources,
\* pattern "Error", summary the same message, confidence "N/A".
C1_FailureYieldsErrorResult ==
    LastCallFailed =>
        /\ last_call.returned
        /\ IsErrorResult(analysis_result)
        /\ LET message == Field(analysis_result, kSummary).v
           IN  /\ Len(message) = 1 + Len(LastExceptionText)
               /\ SubSeq(message, 2, Len(message)) = LastExceptionText
               /\ message[1] = IF last_call.ai.raised
                               THEN "Analysis error: "
                               ELSE "Failed to parse AI response as JSON: "

\* C1 witness: an analysis whose response text failed to parse has run.
C1_Witness ==
    /\ LastCallFailed
    /\ ~last_call.ai.raised
    /\ Field(analysis_result, kConfidence) = Str(sNA)

\* C2: every analyze_diagram call returns (no exception gets past it), and what it
\* returns is a success result with the four top-level keys or the error shape.
C2_ReturnsSuccessOrErrorShape ==
    generate_calls > 0 =>
        /\ last_call.returned
        /\ \/ IsSuccessResult(analysis_result)
           \/ IsErrorResult(analysis_result)

\* C2 witness: the response text parsed to a value that is not an object, which
\* _parse_response handed back, and the call still ended in the error shape.
C2_Witness ==
    /\ generate_calls > 0
    /\ last_call.parsed.exc = "none"
    /\ last_call.parsed.val.t # "object"
    /\ IsErrorResult(analysis_result)

\* json.loads on the text as _parse_response cleans it.
CleanedLoads(txt) == Loads(Strip(ReSub(txt)))

\* C3 (as claimed): for a text that is valid JSON, the fence-wrapped text normalizes
\* to what the bare text normalizes to: both return, and return the same value, or
\* both fail.
C3_FencedEqualsBare ==
    (norm # NotRun /\ normFenced # NotRun /\ Loads(text).ok) =>
        /\ (normFenced.exc = "none") <=> (norm.exc = "none")
        /\ norm.exc = "none" => normFenced.val = norm.val

\* The defaults the claim names.
ClaimedDefault(key) ==
    CASE key = kConfidence -> Str(<<"medium">>)
      [] key = kPattern -> Str(<<"Not identified">>)
      [] key = kSummary -> Str(<<"No summary available">>)
      [] key = kResources -> Arr(<<>>)

\* C4: when the cleaned text parses to an object, _parse_response returns (it does
\* not raise), every missing top-level key holds its default and every key that
\* was there keeps its value.
C4_BackfillsDefaults ==
    (norm # NotRun /\ CleanedLoads(text).ok /\ CleanedLoads(text).val.t = "object") =>
        /\ norm.exc = "none"
        /\ norm.val.t = "object"
        /\ \A key \in FourKeys :
              IF HasKey(CleanedLoads(text).val.v, key)
              THEN Field(norm.val, key) = Field(CleanedLoads(text).val, key)
              ELSE Field(norm.val, key) = ClaimedDefault(key)

\* C4 witness: _parse_response has run on an object that had none of the four keys.
C4_Witness ==
    /\ norm # NotRun
    /\ CleanedLoads(text).ok
    /\ CleanedLoads(text).val.t = "object"
    /\ KeySet(CleanedLoads(text).val) \cap FourKeys = {}
    /\ Field(norm.val, kSummary) = Str(<<"No summary available">>)

\* C5: on a text that is not valid JSON once fences and outer whitespace are gone,
\* _parse_response raises the parser's error and returns nothing, bare or fenced.
C5_InvalidTextRaises ==
    /\ (norm # NotRun /\ (text \in InvalidTexts \/ ~CleanedLoads(text).ok)) =>
            norm.exc = "JSONDecodeError" /\ norm.val = Null
    /\ (normFenced # NotRun /\ (text \in InvalidTexts \/ ~CleanedLoads(Wrap(text, fence)).ok)) =>
            normFenced.exc = "JSONDecodeError" /\ normFenced.val = Null

\* C5 witness: _parse_response has run on a truncated answer and raised.
C5_Witness ==
    /\ text \in Prefixes(Render(DocWithKeys({kConfidence, kResources})))
    /\ Len(text) > 3
    /\ norm.exc = "JSONDecodeError"

\* C6 (as claimed): whenever _parse_response returns, the value has the four
\* top-level keys and its resources value is a sequence.
C6_ReturnedHasKeysAndSequence ==
    norm.exc = "none" =>
        /\ norm.val.t = "object"
        /\ FourKeys \subseteq KeySet(norm.val)
        /\ Field(norm.val, kResources).t = "array"

\* C7 (as claimed): a text that parses to a non-object top-level value makes
\* _parse_response fail; it never returns a result for it.
C7_NonObjectNeverReturns ==
    (norm # NotRun /\ CleanedLoads(text).ok /\ CleanedLoads(text).val.t # "object") =>
        norm.exc # "none"

\* C8: in a success result the confidence is "N/A" only if the response itself said
\* so; a response that omits confidence gets "medium"; and the statistics never fall
\* back to "N/A" for a success result.
C8_NAOnlyInErrorResults ==
    (generate_calls > 0 /\ IsSuccessResult(analysis_result)) =>
        LET answered == CleanedLoads(last_call.ai.text).val
        IN  /\ Field(analysis_result, kConfidence) = Str(<<"N/A">>) =>
                    Field(answered, kConfidence) = Str(<<"N/A">>)
            /\ ~HasKey(answered.v, kConfidence) =>
                    Field(analysis_result, kConfidence) = Str(<<"medium">>)
            /\ StatsConfidence(analysis_result) = Field(analysis_result, kConfidence)

\* C8 witness: a success result whose response omitted confidence.
C8_Witness ==
    /\ generate_calls > 0
    /\ IsSuccessResult(analysis_result)
    /\ ~HasKey(CleanedLoads(last_call.ai.text).val.v, kConfidence)

\* a sorts strictly before b: at the first place they differ a has the smaller code
\* point, or a is a proper prefix of b.
LexBefore(a, b) ==
    \E n \in 1..Len(b) :
        /\ \A m \in 1..(n - 1) : m <= Len(a) /\ a[m] = b[m]
        /\ \/ n = Len(a) + 1
           \/ n <= Len(a) /\ Ord(a[n]) < Ord(b[n])

\* C9: the keys of get_resources_by_category come in ascending lexicographic order.
C9_KeysAscending ==
    grouping # None =>
        \A i, j \in 1..Len(grouping.v) :
            i < j => LexBefore(grouping.v[i][1], grouping.v[j][1])

\* C9 witness: a grouping of resources whose categories first appear out of order.
C9_Witness ==
    /\ grouping # None
    /\ \E i, j \in 1..Len(resources) :
          /\ i < j
          /\ HasKey(resources[i].v, kCategory) /\ HasKey(resources[j].v, kCategory)
          /\ LexBefore(Field(resources[j], kCategory).v, Field(resources[i], kCategory).v)

\* The resource is listed in the bucket of this key.
InBucket(key, resource) ==
    \E i \in 1..Len(grouping.v) :
        /\ grouping.v[i][1] = key
        /\ \E j \in 1..Len(grouping.v[i][2]) : grouping.v[i][2][j] = resource

\* C10 (as claimed): a resource whose category is missing or empty is in the bucket
\* "Other", and no bucket has the empty string as its key.
C10_MissingOrEmptyIsOther ==
    grouping # None =>
        /\ \A i \in 1..Len(resources) :
              (~HasKey(resources[i].v, kCategory) \/ Field(resources[i], kCategory) = Str(<<>>))
                  => InBucket(sOther, resources[i])
        /\ \A i \in 1..Len(grouping.v) : grouping.v[i][1] # <<>>

\* C10 (amended): a resource whose category is missing is in the bucket "Other"; a
\* resource whose category is the empty string is in the bucket of the empty key.
C10_MissingIsOtherEmptyIsKept ==
    grouping # None =>
        \A i \in 1..Len(resources) :
            /\ ~HasKey(resources[i].v, kCategory) => InBucket(sOther, resources[i])
            /\ Field(resources[i], kCategory) = Str(<<>>) =>
                    InBucket(<<>>, resources[i]) /\ ~InBucket(sOther, resources[i])

\* C10 witness: a grouping of a list with a category-less resource and one whose
\* category is the empty string.
C10_Witness ==
    /\ grouping # None
    /\ \E i, j \in 1..Len(resources) :
          /\ ~HasKey(resources[i].v, kCategory)
          /\ Field(resources[j], kCategory) = Str(<<>>)

\* The places of the input list whose resource is listed in bucket b of the grouping.
PlacesIn(b) ==
    {i \in 1..Len(resources) :
        \E j \in 1..Len(grouping.v[b][2]) : grouping.v[b][2][j] = resources[i]}

\* C11: the grouping is a stable partition of the resources: every resource is in
\* exactly one bucket, every bucket lists its resources in their original relative
\* order and is not empty, an empty list gives an empty mapping, and the call leaves
\* its input as it was.
C11_StablePartition ==
    /\ [](grouping # None =>
            /\ \A i \in 1..Len(resources) :
                  Cardinality({b \in 1..Len(grouping.v) : i \in PlacesIn(b)}) = 1
            /\ \A b \in 1..Len(grouping.v) :
                  /\ grouping.v[b][2] # <<>>
                  /\ grouping.v[b][2] =
                        SelectSeq(resources,
                                  LAMBDA r : \E i \in PlacesIn(b) : resources[i] = r)
            /\ resources = <<>> => grouping.v = <<>>)
    /\ [][grouping' # grouping => resources' = resources]_vars

\* C11 witness: a grouping with a bucket of two resources that are not neighbours in
\* the input, and another bucket between them.
C11_Witness ==
    /\ grouping # None
    /\ \E b \in 1..Len(grouping.v) :
          /\ Len(grouping.v[b][2]) >= 2
          /\ \E i, j, k \in 1..Len(resources) :
                i < j /\ j < k /\ i \in PlacesIn(b) /\ k \in PlacesIn(b) /\ j \notin PlacesIn(b)

\* The category the claims count a resource under: its category, "Other" if it has none.
ClaimedCategory(i) ==
    IF HasKey(resources[i].v, kCategory) THEN Field(resources[i], kCategory).v ELSE sOther

\* The connections the claims count for a resource: the length of its list, 0 if it
\* has none.
ClaimedConnections(i) ==
    IF HasKey(resources[i].v, kConnections) THEN Len(Field(resources[i], kConnections).v)
    ELSE 0

\* C12: the statistics count the resources, the distinct categories with a missing
\* category read as "Other", and the connections with missing connections read as
\* none; for an empty list the three totals are 0 and there is no most connected
\* resource.
C12_Totals ==
    stats # None =>
        /\ stats.v.total_resources = Len(resources)
        /\ stats.v.total_categories =
              Cardinality({ClaimedCategory(i) : i \in 1..Len(resources)})
        /\ stats.v.total_connections =
              Cardinality(UNION {{<<i, j>> : j \in 1..ClaimedConnections(i)} :
                                    i \in 1..Len(resources)})
        /\ resources = <<>> =>
              /\ stats.v.total_resources = 0
              /\ stats.v.total_categories = 0
              /\ stats.v.total_connections = 0
              /\ stats.v.most_connected_resource.t = "None"

\* C12 witness: statistics of a list where a resource without category meets one of
\* category "Other", and a resource without connections meets one with two.
C12_Witness ==
    /\ stats # None
    /\ \E i, j \in 1..Len(resources) :
          /\ ~HasKey(resources[i].v, kCategory)
          /\ Field(resources[j], kCategory) = Str(sOther)
    /\ \E i, j \in 1..Len(resources) :
          /\ ~HasKey(resources[i].v, kConnections)
          /\ ClaimedConnections(j) = 2

\* C13: the statistics have no most connected resource exactly when the list is
\* empty; otherwise they name the first resource, in input order, whose connection
\* count is the largest of all, with that count.
C13_FirstMostConnected ==
    stats # None =>
        /\ stats.v.most_connected_resource.t = "None" <=> resources = <<>>
        /\ resources # <<>> =>
              \E i \in 1..Len(resources) :
                  /\ \A j \in 1..Len(resources) : ClaimedConnections(j) <= ClaimedConnections(i)
                  /\ \A j \in 1..(i - 1) : ClaimedConnections(j) < ClaimedConnections(i)
                  /\ stats.v.most_connected_resource.name = Field(resources[i], kResourceName).v
                  /\ stats.v.most_connected_resource.connections = ClaimedConnections(i)

\* C13 witness: statistics of a list where two resources tie for the largest
\* connection count and the first of them is not the first resource.
C13_Witness ==
    /\ stats # None
    /\ \E i, j \in 2..Len(resources) :
          /\ i < j
          /\ ClaimedConnections(i) = ClaimedConnections(j)
          /\ \A k \in 1..Len(resources) : ClaimedConnections(k) <= ClaimedConnections(i)
          /\ ClaimedConnections(1) < ClaimedConnections(i)

\* The description a row is made from: the resource's, the empty str if it has none.
ClaimedDescription(i) ==
    IF HasKey(resources[i].v, kDescription) THEN Field(resources[i], kDescription).v ELSE <<>>

\* C14: the table has one row per resource, in input order; a description of more
\* than 100 characters appears as its first 100 characters followed by "...", and a
\* shorter or missing one appears as it is.
C14_RowsAndTruncation ==
    rows # None =>
        /\ Len(rows.v) = Len(resources)
        /\ \A i \in 1..Len(resources) :
              LET d == ClaimedDescription(i)
                  shown == rows.v[i].description
              IN  /\ HasKey(resources[i].v, kResourceName) =>
                        rows.v[i].name = Field(resources[i], kResourceName).v
                  /\ Len(d) > 100 =>
                        /\ Len(shown) = 103
                        /\ \A n \in 1..100 : shown[n] = d[n]
                        /\ \A n \in 101..103 : shown[n] = "."
                  /\ Len(d) <= 100 => shown = d

\* C14 witness: a table of a list with a description of 101 characters, one of
\* exactly 100 and a resource without description.
C14_Witness ==
    /\ rows # None
    /\ \E i, j, k \in 1..Len(resources) :
          /\ Len(ClaimedDescription(i)) = 101
          /\ Len(ClaimedDescription(j)) = 100
          /\ ~HasKey(resources[k].v, kDescription)

\* C15: the session holds one current result.  Every analyze click with a key makes
\* exactly one generate call and stores that call's result, success or error, in
\* place of the previous one; the stored result is always the latest call's, and
\* nothing else changes it or makes a call.
C15_SingleCurrentResult ==
    /\ [](/\ analysis_result = None <=> generate_calls = 0
          /\ analysis_result # None =>
                /\ last_call.returned
                /\ analysis_result = AnalyzeDiagram(analyzer, last_call.ai, last_call.at).val
                /\ Field(Field(analysis_result, kMetadata), kTimestamp) =
                        GetTimestamp(last_call.at))
    /\ [][/\ last_call' # last_call =>
                /\ last_call'.api_key # ""
                /\ generate_calls' = generate_calls + 1
                /\ analysis_result' =
                        AnalyzeDiagram(analyzer', last_call'.ai, last_call'.at).val
          /\ last_call' = last_call =>
                /\ generate_calls' = generate_calls
                /\ analysis_result' = analysis_result]_vars

\* C15 witness: after at least two calls, the latest of which failed, the session
\* holds the error result of that call.
C15_Witness ==
    /\ generate_calls >= 2
    /\ LastCallFailed
    /\ IsErrorResult(analysis_result)
    /\ last_call.at = generate_calls - 1

\* The model identifier in the stored result's metadata.
ResultModel == Field(Field(analysis_result, kMetadata), kModel)

\* C16 (as claimed): a success result names the mapped identifier of the model that
\* was selected when its analysis ran, and after an analysis the cached analyzer is
\* one built for the key entered at that time.
C16_ResultModelIsSelectedModel ==
    /\ (analysis_result # None /\ IsSuccessResult(analysis_result)) =>
            ResultModel = Str(<<ModelMapping(last_call.model_name)>>)
    /\ generate_calls > 0 =>
            analyzer # None /\ analyzer.api_key = last_call.api_key

\* The keys of a dict given as the sequence of its items.
ItemKeys(items) == {items[i][1] : i \in 1..Len(items)}

\* sum(d.values()) for a dict of counts over the key set keys.
RECURSIVE SumOver(_, _)
SumOver(counts, keys) ==
    IF keys = {} THEN 0
    ELSE LET k == CHOOSE k \in keys : TRUE
         IN  DictGet(counts, k, 0) + SumOver(counts, keys \ {k})

\* C17: the statistics and the grouping of one result agree: resources_by_category
\* has the keys of the grouping, each count is the length of that key's bucket, the
\* number of keys is total_categories and the counts add up to total_resources.
C17_StatisticsMatchGrouping ==
    (stats # None /\ grouping # None) =>
        LET counts == stats.v.resources_by_category
        IN  /\ ItemKeys(counts) = ItemKeys(grouping.v)
            /\ Len(counts) = Cardinality(ItemKeys(counts))
            /\ \A c \in ItemKeys(counts) :
                  DictGet(counts, c, 0) = Len(DictGet(grouping.v, c, <<>>))
            /\ Cardinality(ItemKeys(counts)) = stats.v.total_categories
            /\ SumOver(counts, ItemKeys(counts)) = stats.v.total_resources

\* C17 witness: both computed for a list with a category-less resource, one of the
\* empty category, and two resources sharing a bucket.
C17_Witness ==
    /\ stats # None
    /\ grouping # None
    /\ \E i, j \in 1..Len(resources) :
          /\ ~HasKey(resources[i].v, kCategory)
          /\ Field(resources[j], kCategory) = Str(<<>>)
    /\ \E b \in 1..Len(grouping.v) : Len(grouping.v[b][2]) >= 2

====
